---- MODULE Spec2Model ----
(***************************************************************************)
(* Model of web3_privacy_scorer (src/app.py): the profile registry, the    *)
(* scoring function, the two renderers and the control flow of main().     *)
(*                                                                         *)
(* Text is a sequence of fragments.  A fragment is either one character    *)
(* ("a", "Z", a double quote, a backslash, a digit) or a literal of the    *)
(* source ("Aztec-like L2", "Name: ").  The string a sequence denotes is   *)
(* the concatenation of its fragments.  In the text of a value (a key, a   *)
(* name, a description) a double quote is always a fragment of its own,    *)
(* and command-line text is always one character per fragment.             *)
(*                                                                         *)
(* An optional value (argparse's None or a string) is <<>> for None and    *)
(* <<s>> for the string s.                                                 *)
(***************************************************************************)
EXTENDS Integers, Sequences, FiniteSets, TLC

VARIABLES
  pc,           \* position of the run: "start", "parsed", "render", "exit"
  argv,         \* the command line given to the run: <<>> or <<record>>
  args,         \* the namespace parse_args() returned: <<>> or <<record>>
  profile,      \* main()'s local variable profile: <<>> or <<PrivacyProfile>>
  stdout,       \* the lines printed so far
  calls,        \* the functions of the module called so far, in order
  exit_status,  \* -1 while running, then the process exit status
  memo          \* an earlier built-in run, remembered for comparison

vars == <<pc, argv, args, profile, stdout, calls, exit_status, memo>>

(* ---------------------------------------------------------------- bounds *)

\* Case variants of a key are formed by upper-casing any subset of its first
\* MaxCasePos characters (plus the all-upper-case variant).
MaxCasePos == 2

(* ------------------------------------------------------------- text tools *)

None == <<>>
Some(s) == <<s>>

QUOTE == "\""
BACKSLASH == "\\"

LowerLetters ==
  <<"a","b","c","d","e","f","g","h","i","j","k","l","m",
    "n","o","p","q","r","s","t","u","v","w","x","y","z">>
UpperLetters ==
  <<"A","B","C","D","E","F","G","H","I","J","K","L","M",
    "N","O","P","Q","R","S","T","U","V","W","X","Y","Z">>

\* str.lower() on one character.
LowerChar(c) ==
  IF \E i \in 1..Len(UpperLetters) : UpperLetters[i] = c
  THEN LowerLetters[CHOOSE i \in 1..Len(UpperLetters) : UpperLetters[i] = c]
  ELSE c

\* str.upper() on one character (used to enumerate inputs only).
UpperChar(c) ==
  IF \E i \in 1..Len(LowerLetters) : LowerLetters[i] = c
  THEN UpperLetters[CHOOSE i \in 1..Len(LowerLetters) : LowerLetters[i] = c]
  ELSE c

\* str.lower()
Lower(s) == [i \in 1..Len(s) |-> LowerChar(s[i])]

\* str.replace('"', '\\"')
RECURSIVE EscapeQuotes(_)
EscapeQuotes(s) ==
  IF s = <<>> THEN <<>>
  ELSE (IF Head(s) = QUOTE THEN <<BACKSLASH, QUOTE>> ELSE <<Head(s)>>)
       \o EscapeQuotes(Tail(s))

DigitChars == <<"0","1","2","3","4","5","6","7","8","9">>

\* str(v) for a non-negative int: its decimal digits.
RECURSIVE IntToStr(_)
IntToStr(n) ==
  IF n < 10 THEN <<DigitChars[n + 1]>>
  ELSE IntToStr(n \div 10) \o <<DigitChars[(n % 10) + 1]>>

\* Python's truthiness of an optional string: None and "" are both falsy.
Truthy(o) == o # None /\ o[1] # <<>>

(* --------------------------------------------------------------- registry *)

PrivacyProfile(n, d, zk, fhe, os, au, sf) ==
  [name |-> n, description |-> d, uses_zk |-> zk, uses_fhe |-> fhe,
   open_source |-> os, audited |-> au, soundness_focus |-> sf]

KeyAztec == <<"a","z","t","e","c">>
KeyZama == <<"z","a","m","a">>
KeySoundness == <<"s","o","u","n","d","n","e","s","s">>

\* Mutant: the zama entry marked audited.
PROFILES_zama_audited ==
  << <<KeyAztec,
       PrivacyProfile(<<"Aztec-like L2">>,
         <<"Inspired by Aztec: zk rollup with privacy-preserving smart contracts.">>,
         TRUE, FALSE, TRUE, TRUE, TRUE)>>,
     <<KeyZama,
       PrivacyProfile(<<"Zama-like FHE stack">>,
         <<"Inspired by Zama: fully homomorphic encryption for Web3 and cryptography.">>,
         FALSE, TRUE, TRUE, TRUE, TRUE)>>,
     <<KeySoundness,
       PrivacyProfile(<<"Soundness-focused lab">>,
         <<"Inspired by soundness research labs: formal verification and proofs first.">>,
         TRUE, FALSE, FALSE, TRUE, TRUE)>> >>

\* The dict literal, in insertion order: <<key, profile>> pairs.
PROFILES ==
  << <<KeyAztec,
       PrivacyProfile(<<"Aztec-like L2">>,
         <<"Inspired by Aztec: zk rollup with privacy-preserving smart contracts.">>,
         TRUE, FALSE, TRUE, TRUE, TRUE)>>,
     <<KeyZama,
       PrivacyProfile(<<"Zama-like FHE stack">>,
         <<"Inspired by Zama: fully homomorphic encryption for Web3 and cryptography.">>,
         FALSE, TRUE, TRUE, FALSE, TRUE)>>,
     <<KeySoundness,
       PrivacyProfile(<<"Soundness-focused lab">>,
         <<"Inspired by soundness research labs: formal verification and proofs first.">>,
         TRUE, FALSE, FALSE, TRUE, TRUE)>> >>

\* key in PROFILES
InProfiles(key) == \E i \in 1..Len(PROFILES) : PROFILES[i][1] = key

\* PROFILES[key]
ProfileOf(key) ==
  PROFILES[CHOOSE i \in 1..Len(PROFILES) : PROFILES[i][1] = key][2]

(* ---------------------------------------------------------------- scoring *)

W_ZK == 30
W_FHE == 30
W_OPEN_SOURCE == 15
W_AUDITED == 15
W_SOUNDNESS == 10
SCORE_CAP == 100

Min(a, b) == IF a <= b THEN a ELSE b

\* Mutant: the weights of audited and soundness_focus swapped.
RawScore_swapped(p) ==
  LET s1 == IF p.uses_zk THEN W_ZK ELSE 0
      s2 == IF p.uses_fhe THEN s1 + W_FHE ELSE s1
      s3 == IF p.open_source THEN s2 + W_OPEN_SOURCE ELSE s2
      s4 == IF p.audited THEN s3 + W_SOUNDNESS ELSE s3
      s5 == IF p.soundness_focus THEN s4 + W_AUDITED ELSE s4
  IN s5

\* The sum score_profile accumulates before the final min().
RawScore(p) ==
  LET s1 == IF p.uses_zk THEN W_ZK ELSE 0
      s2 == IF p.uses_fhe THEN s1 + W_FHE ELSE s1
      s3 == IF p.open_source THEN s2 + W_OPEN_SOURCE ELSE s2
      s4 == IF p.audited THEN s3 + W_AUDITED ELSE s3
      s5 == IF p.soundness_focus THEN s4 + W_SOUNDNESS ELSE s4
  IN s5

score_profile(p) == Min(RawScore(p), SCORE_CAP)

(* -------------------------------------------------------------- renderers *)

YesNo(b) == IF b THEN "yes" ELSE "no"

\* The lines summarize_profile joins with "\n".
summarize_profile(p) ==
  LET score == score_profile(p)
      flags == << <<"Uses zero-knowledge proofs: ", YesNo(p.uses_zk)>>,
                  <<"Uses fully homomorphic encryption: ", YesNo(p.uses_fhe)>>,
                  <<"Open source code: ", YesNo(p.open_source)>>,
                  <<"External audits: ", YesNo(p.audited)>>,
                  <<"Formal soundness focus: ", YesNo(p.soundness_focus)>> >>
  IN << <<"Name: ">> \o p.name,
        <<"Description: ">> \o p.description,
        <<>>,
        <<"Features:">> >>
     \o [i \in 1..Len(flags) |-> <<"  - ">> \o flags[i]]
     \o << <<>>,
           <<"Estimated privacy-strength score: ">> \o IntToStr(score) \o <<"/100">>,
           <<>>,
           <<"Note: This score is a toy heuristic for educational purposes only.">>,
           <<"Always rely on official audits, specifications, and documentation.">> >>

\* Python values of the dict export_json walks, with their dynamic type.
PyStr(s) == [type |-> "str", val |-> s]
PyBool(b) == [type |-> "bool", val |-> b]
PyInt(n) == [type |-> "int", val |-> n]

\* asdict(profile): the dataclass fields in declaration order.
asdict(p) ==
  << <<"name", PyStr(p.name)>>,
     <<"description", PyStr(p.description)>>,
     <<"uses_zk", PyBool(p.uses_zk)>>,
     <<"uses_fhe", PyBool(p.uses_fhe)>>,
     <<"open_source", PyBool(p.open_source)>>,
     <<"audited", PyBool(p.audited)>>,
     <<"soundness_focus", PyBool(p.soundness_focus)>> >>

\* Mutant: the int test made before the bool test (a bool is an int in
\* Python), so that flags render through str().
JsonValue_intfirst(v) ==
  IF v.type = "bool" THEN <<(IF v.val THEN "True" ELSE "False")>>
  ELSE IF v.type = "int" THEN IntToStr(v.val)
  ELSE <<QUOTE>> \o EscapeQuotes(v.val) \o <<QUOTE>>

\* The isinstance chain that renders one value.
JsonValue(v) ==
  IF v.type = "bool" THEN <<(IF v.val THEN "true" ELSE "false")>>
  ELSE IF v.type = "int" THEN IntToStr(v.val)
  ELSE <<QUOTE>> \o EscapeQuotes(v.val) \o <<QUOTE>>

\* One entry line: f'  "{k}": {val}{comma}', as <<indent-quote, k, quote-colon>>
\* followed by the value and the comma, if any.
JsonEntry(data, i) ==
  LET comma == IF i - 1 < Len(data) - 1 THEN <<",">> ELSE <<>>
  IN <<"  \"", data[i][1], "\": ">> \o JsonValue(data[i][2]) \o comma

\* Mutant: the score entry computed without the soundness weight.
export_json_rescored(p) ==
  LET data == asdict(p)
              \o << <<"score",
                      PyInt(score_profile([p EXCEPT !.soundness_focus = FALSE]))>> >>
  IN << <<"{">> >>
     \o [i \in 1..Len(data) |-> JsonEntry(data, i)]
     \o << <<"}">> >>

\* The lines export_json joins with "\n".
export_json(p) ==
  LET data == asdict(p) \o << <<"score", PyInt(score_profile(p))>> >>
  IN << <<"{">> >>
     \o [i \in 1..Len(data) |-> JsonEntry(data, i)]
     \o << <<"}">> >>

\* Mutant: the entries listed in sorted key order.
ListingLines_sorted ==
  << <<"Built-in example profiles related to Web3 privacy and soundness:">> >>
  \o [i \in 1..Len(PROFILES) |->
        LET j == IF i = 1 THEN 1 ELSE 5 - i
        IN <<"- ">> \o PROFILES[j][1] \o <<": ">> \o PROFILES[j][2].name]

\* The lines list_profiles prints.
ListingLines ==
  << <<"Built-in example profiles related to Web3 privacy and soundness:">> >>
  \o [i \in 1..Len(PROFILES) |->
        <<"- ">> \o PROFILES[i][1] \o <<": ">> \o PROFILES[i][2].name]

UnknownLine == <<"Unknown profile key. Available options:">>

(* -------------------------------------------------------- custom profiles *)

DefaultName == <<"Custom Web3 project">>
DefaultDescription == <<"User-defined Web3 project privacy profile.">>

\* Mutant: the fallbacks applied only when the option is absent.
profile_from_args_isnone(a) ==
  PrivacyProfile(
    IF a.name # None THEN a.name[1] ELSE DefaultName,
    IF a.description # None THEN a.description[1] ELSE DefaultDescription,
    a.zk, a.fhe, a.open_source, a.audited, a.soundness)

profile_from_args(a) ==
  PrivacyProfile(
    IF Truthy(a.name) THEN a.name[1] ELSE DefaultName,
    IF Truthy(a.description) THEN a.description[1] ELSE DefaultDescription,
    a.zk, a.fhe, a.open_source, a.audited, a.soundness)

(* ------------------------------------------------------ command-line input *)

\* s with the characters at the positions in U upper-cased.
ApplyCase(s, U) == [i \in 1..Len(s) |-> IF i \in U THEN UpperChar(s[i]) ELSE s[i]]

CaseVariants(k) ==
  {ApplyCase(k, U) : U \in SUBSET (1..Min(MaxCasePos, Len(k)))}
  \cup {ApplyCase(k, 1..Len(k))}

RegistryKeys == {PROFILES[i][1] : i \in 1..Len(PROFILES)}

\* Keys that are not in the registry in any letter case: "foo" and its
\* variants, the empty string, a proper prefix and an extension of a key.
UnknownKeys ==
  CaseVariants(<<"f","o","o">>)
  \cup {<<>>, <<"a","z","t","e">>, <<"z","a","m","a","s">>}

ProfileInputs ==
  {None} \cup {Some(k) : k \in (UNION {CaseVariants(k) : k \in RegistryKeys})
                                \cup UnknownKeys}

NameInputs ==
  {None, Some(<<>>), Some(<<"a", QUOTE, "b">>), Some(<<QUOTE, BACKSLASH>>)}

DescriptionInputs ==
  {None, Some(<<>>), Some(<<"d", QUOTE>>)}

\* Every command line over the program's options.
ArgvSpace ==
  [profile : ProfileInputs, custom : BOOLEAN,
   name : NameInputs, description : DescriptionInputs,
   zk : BOOLEAN, fhe : BOOLEAN, open_source : BOOLEAN, audited : BOOLEAN,
   soundness : BOOLEAN, list_profiles : BOOLEAN, json : BOOLEAN]

\* Mutant: the two options added outside a mutually exclusive group.
GroupConflict_none(a) == FALSE

\* The mutually exclusive group: both --profile and --custom were seen.
GroupConflict(a) == a.profile # None /\ a.custom

(* ----------------------------------------------------------------- state *)

Init ==
  /\ pc = "start"
  /\ argv = <<>>
  /\ args = <<>>
  /\ profile = <<>>
  /\ stdout = <<>>
  /\ calls = <<>>
  /\ exit_status = -1
  /\ memo = <<>>

\* parser.parse_args() returns the namespace.
ParseArgs ==
  /\ pc = "start"
  /\ \E a \in ArgvSpace :
       /\ ~GroupConflict(a)
       /\ argv' = <<a>>
       /\ args' = <<a>>
  /\ pc' = "parsed"
  /\ UNCHANGED <<profile, stdout, calls, exit_status, memo>>

\* parser.parse_args() reports a usage error on stderr and exits with status 2.
ParseError ==
  /\ pc = "start"
  /\ \E a \in ArgvSpace :
       /\ GroupConflict(a)
       /\ argv' = <<a>>
  /\ pc' = "exit"
  /\ exit_status' = 2
  /\ UNCHANGED <<args, profile, stdout, calls, memo>>

\* if args.list_profiles: list_profiles(); return
ListBranch ==
  /\ pc = "parsed"
  /\ args[1].list_profiles
  /\ calls' = Append(calls, "list_profiles")
  /\ stdout' = stdout \o ListingLines
  /\ pc' = "exit"
  /\ exit_status' = 0
  /\ UNCHANGED <<argv, args, profile, memo>>

\* The test main() makes of args.profile.
ProfileSelected(a) == Truthy(a.profile)

\* Mutant: the key looked up as typed.
LookupKey_astyped(a) == a.profile[1]

\* key = args.profile.lower()
LookupKey(a) == Lower(a.profile[1])

\* if args.profile: key not in PROFILES: message, listing, return
UnknownProfile ==
  /\ pc = "parsed"
  /\ ~args[1].list_profiles
  /\ ProfileSelected(args[1])
  /\ ~InProfiles(LookupKey(args[1]))
  /\ calls' = Append(calls, "list_profiles")
  /\ stdout' = (stdout \o <<UnknownLine>>) \o ListingLines
  /\ pc' = "exit"
  /\ exit_status' = 0
  /\ UNCHANGED <<argv, args, profile, memo>>

\* Mutant: the feature flags of the command line laid over the entry.
BuiltinLookup_overlay(a) ==
  [ProfileOf(LookupKey(a)) EXCEPT
     !.uses_zk = @ \/ a.zk, !.uses_fhe = @ \/ a.fhe,
     !.open_source = @ \/ a.open_source, !.audited = @ \/ a.audited,
     !.soundness_focus = @ \/ a.soundness]

\* profile = PROFILES[key]
BuiltinLookup(a) == ProfileOf(LookupKey(a))

\* if args.profile: key in PROFILES: profile = PROFILES[key]
BuiltinProfile ==
  /\ pc = "parsed"
  /\ ~args[1].list_profiles
  /\ ProfileSelected(args[1])
  /\ InProfiles(LookupKey(args[1]))
  /\ profile' = <<BuiltinLookup(args[1])>>
  /\ pc' = "render"
  /\ UNCHANGED <<argv, args, stdout, calls, exit_status, memo>>

\* else: profile = profile_from_args(args)
CustomProfile ==
  /\ pc = "parsed"
  /\ ~args[1].list_profiles
  /\ ~ProfileSelected(args[1])
  /\ profile' = <<profile_from_args(args[1])>>
  /\ calls' = Append(calls, "profile_from_args")
  /\ pc' = "render"
  /\ UNCHANGED <<argv, args, stdout, exit_status, memo>>

\* if args.json: print(export_json(profile))
RenderJson ==
  /\ pc = "render"
  /\ args[1].json
  /\ calls' = calls \o <<"export_json", "score_profile">>
  /\ stdout' = stdout \o export_json(profile[1])
  /\ pc' = "exit"
  /\ exit_status' = 0
  /\ UNCHANGED <<argv, args, profile, memo>>

\* else: print(summarize_profile(profile))
RenderText ==
  /\ pc = "render"
  /\ ~args[1].json
  /\ calls' = calls \o <<"summarize_profile", "score_profile">>
  /\ stdout' = stdout \o summarize_profile(profile[1])
  /\ pc' = "exit"
  /\ exit_status' = 0
  /\ UNCHANGED <<argv, args, profile, memo>>

Next ==
  \/ ParseArgs
  \/ ParseError
  \/ ListBranch
  \/ UnknownProfile
  \/ BuiltinProfile
  \/ CustomProfile
  \/ RenderJson
  \/ RenderText

Spec == Init /\ [][Next]_vars

(* --------------------------------------------------- repeated invocations *)

\* What is remembered of a finished run that rendered a built-in profile:
\* the lower-cased key, whether the key was typed exactly as the registry
\* spells it, whether the run gave none of --name, --description and the
\* feature flags, the --json setting, the profile and the output.
MemoOfRun ==
  [key |-> Lower(args[1].profile[1]),
   exact |-> args[1].profile[1] \in RegistryKeys,
   plain |-> /\ args[1].name = None /\ args[1].description = None
             /\ ~args[1].zk /\ ~args[1].fhe /\ ~args[1].open_source
             /\ ~args[1].audited /\ ~args[1].soundness,
   json |-> args[1].json,
   profile |-> profile[1],
   out |-> stdout]

\* The run rendered a profile it did not build from the flags.
RenderedBuiltin ==
  /\ pc = "exit"
  /\ profile # <<>>
  /\ "profile_from_args" \notin {calls[i] : i \in 1..Len(calls)}

\* The script is invoked again: every run starts from a fresh process.  The
\* finished run may be remembered, if none is yet.
Restart ==
  /\ pc = "exit"
  /\ pc' = "start"
  /\ argv' = <<>>
  /\ args' = <<>>
  /\ profile' = <<>>
  /\ stdout' = <<>>
  /\ calls' = <<>>
  /\ exit_status' = -1
  /\ \/ memo' = memo
     \/ /\ memo = <<>>
        /\ RenderedBuiltin
        /\ memo' = <<MemoOfRun>>

NextRuns ==
  \/ Next
  \/ Restart

SpecRuns == Init /\ [][NextRuns]_vars

(* ---------------------------------------------------------------- claims *)

FlagsOf(p) ==
  <<p.uses_zk, p.uses_fhe, p.open_source, p.audited, p.soundness_focus>>

Bit(b) == IF b THEN 1 ELSE 0

WeightedSum(p) ==
  30 * Bit(p.uses_zk) + 30 * Bit(p.uses_fhe) + 15 * Bit(p.open_source)
  + 15 * Bit(p.audited) + 10 * Bit(p.soundness_focus)

\* The digits between the label and "/100" in the text report.
TextScore(lines) == SubSeq(lines[11], 2, Len(lines[11]) - 1)

\* The value of the last entry of the structured output.
JsonScore(lines) == SubSeq(lines[9], 4, Len(lines[9]))

\* The score a finished rendering run printed.
PrintedScore == IF args[1].json THEN JsonScore(stdout) ELSE TextScore(stdout)

Rendered == pc = "exit" /\ profile # <<>>

\* C1: for every combination of the five flags, score_profile is the sum of
\* the active weights 30/30/15/15/10 clamped at 100; it is an integer in
\* 0..100, the clamp never changes the sum, and a finished run prints it.
C1_ScoreIsClampedWeightedSum ==
  profile # <<>> =>
    LET p == profile[1]
        sum == WeightedSum(p)
    IN /\ score_profile(p) = (IF sum > 100 THEN 100 ELSE sum)
       /\ score_profile(p) \in 0..100
       /\ score_profile(p) = sum
       /\ pc = "exit" => PrintedScore = IntToStr(sum)

C1_Witness ==
  /\ Rendered
  /\ FlagsOf(profile[1]) = <<TRUE, TRUE, TRUE, TRUE, TRUE>>
  /\ PrintedScore = <<"1", "0", "0">>

\* A finished run that was given --profile k, spelled as in the registry.
RegistryRun(k) ==
  /\ pc = "exit"
  /\ args # <<>>
  /\ ~args[1].list_profiles
  /\ args[1].profile = Some(k)

JsonFlagLine(k, b) == <<"  \"", k, "\": ", (IF b THEN "true" ELSE "false"), ",">>

\* C2: the three registry profiles have the flags of the registry table and
\* score aztec 70, zama 55, soundness 55; --profile aztec --json prints, in
\* this order, the name "Aztec-like L2", the five flags true, false, true,
\* true, true, and the score 70.
C2_RegistryProfilesAndScores ==
  /\ RegistryRun(KeyAztec) =>
       /\ profile # <<>>
       /\ profile[1].name = <<"Aztec-like L2">>
       /\ FlagsOf(profile[1]) = <<TRUE, FALSE, TRUE, TRUE, TRUE>>
       /\ score_profile(profile[1]) = 70
       /\ PrintedScore = <<"7", "0">>
       /\ args[1].json =>
            /\ stdout[2] = <<"  \"", "name", "\": ", QUOTE, "Aztec-like L2", QUOTE, ",">>
            /\ stdout[4] = JsonFlagLine("uses_zk", TRUE)
            /\ stdout[5] = JsonFlagLine("uses_fhe", FALSE)
            /\ stdout[6] = JsonFlagLine("open_source", TRUE)
            /\ stdout[7] = JsonFlagLine("audited", TRUE)
            /\ stdout[8] = JsonFlagLine("soundness_focus", TRUE)
            /\ stdout[9] = <<"  \"", "score", "\": ", "7", "0">>
  /\ RegistryRun(KeyZama) =>
       /\ profile # <<>>
       /\ profile[1].name = <<"Zama-like FHE stack">>
       /\ FlagsOf(profile[1]) = <<FALSE, TRUE, TRUE, FALSE, TRUE>>
       /\ score_profile(profile[1]) = 55
       /\ PrintedScore = <<"5", "5">>
  /\ RegistryRun(KeySoundness) =>
       /\ profile # <<>>
       /\ profile[1].name = <<"Soundness-focused lab">>
       /\ FlagsOf(profile[1]) = <<TRUE, FALSE, FALSE, TRUE, TRUE>>
       /\ score_profile(profile[1]) = 55
       /\ PrintedScore = <<"5", "5">>

C2_Witness ==
  /\ RegistryRun(KeyAztec)
  /\ args[1].json
  /\ Len(stdout) = 10

\* The listing of the registry, written out.
ExpectedListing ==
  << <<"Built-in example profiles related to Web3 privacy and soundness:">>,
     <<"- ", "a","z","t","e","c", ": ", "Aztec-like L2">>,
     <<"- ", "z","a","m","a", ": ", "Zama-like FHE stack">>,
     <<"- ", "s","o","u","n","d","n","e","s","s", ": ", "Soundness-focused lab">> >>

\* A finished run without --list-profiles that was given --profile with a
\* key whose lower-cased form is not a registry key.
UnknownKeyRun ==
  /\ pc = "exit"
  /\ args # <<>>
  /\ ~args[1].list_profiles
  /\ args[1].profile # None
  /\ Lower(args[1].profile[1]) \notin {KeyAztec, KeyZama, KeySoundness}

UnknownKeyOutcome ==
  /\ stdout = <<UnknownLine>> \o ExpectedListing
  /\ calls = <<"list_profiles">>
  /\ profile = <<>>
  /\ exit_status = 0

\* C3: without --list-profiles, --profile with any string whose lower-cased
\* form is not a registry key prints the unknown-profile message and the
\* listing, computes no score, calls no renderer, builds no custom profile
\* and exits with status 0.
C3_UnknownKeyListsAndExits == UnknownKeyRun => UnknownKeyOutcome

\* C3, for the keys that are not the empty string.
C3_NonEmptyUnknownKeyListsAndExits ==
  (UnknownKeyRun /\ args[1].profile[1] # <<>>) => UnknownKeyOutcome

C3_NonEmptyWitness ==
  /\ UnknownKeyRun
  /\ args[1].profile = Some(<<"F", "O", "O">>)

\* A finished run without --list-profiles that was given --profile with a
\* key whose lower-cased form is a registry key.
BuiltinRun ==
  /\ pc = "exit"
  /\ args # <<>>
  /\ ~args[1].list_profiles
  /\ args[1].profile # None
  /\ Lower(args[1].profile[1]) \in {KeyAztec, KeyZama, KeySoundness}

\* The remembered run had the same lower-cased key and --json setting.
MemoMatches ==
  /\ memo # <<>>
  /\ memo[1].key = Lower(args[1].profile[1])
  /\ memo[1].json = args[1].json

\* C4: a run given an upper/lower-case variant of a registry key resolves to
\* the same profile and prints the same output as a run given the key as
\* the registry spells it.
C4_LookupIsCaseInsensitive ==
  BuiltinRun =>
    /\ profile # <<>>
    /\ stdout # <<>>
    /\ (MemoMatches /\ memo[1].exact) =>
         /\ profile[1] = memo[1].profile
         /\ stdout = memo[1].out

C4_Witness ==
  /\ BuiltinRun
  /\ MemoMatches
  /\ memo[1].exact
  /\ args[1].profile = Some(<<"A", "Z", "T", "E", "C">>)

\* C5: with --list-profiles in a command line that parses, whatever the
\* other options, the run prints only the header and one line per registry
\* entry in the order aztec, zama, soundness, computes no score, calls no
\* renderer and exits with status 0.
C5_ListProfilesWins ==
  (pc = "exit" /\ args # <<>> /\ args[1].list_profiles) =>
    /\ stdout = ExpectedListing
    /\ calls = <<"list_profiles">>
    /\ profile = <<>>
    /\ exit_status = 0

C5_Witness ==
  /\ pc = "exit"
  /\ args # <<>>
  /\ args[1].list_profiles
  /\ args[1].profile = Some(KeyZama)
  /\ args[1].json
  /\ args[1].zk
  /\ args[1].name # None
  /\ stdout # <<>>

\* The command line has no option at all, --json aside.
NoFlags(a) ==
  /\ a.profile = None /\ ~a.custom /\ a.name = None /\ a.description = None
  /\ ~a.zk /\ ~a.fhe /\ ~a.open_source /\ ~a.audited /\ ~a.soundness
  /\ ~a.list_profiles

\* Neither --list-profiles nor --profile selected the path of the run.
CustomPath ==
  /\ pc \in {"render", "exit"}
  /\ args # <<>>
  /\ ~args[1].list_profiles
  /\ (args[1].profile = None \/ args[1].profile = Some(<<>>))

\* C6: on the custom path each feature equals its flag, name and description
\* are the option's value if given and non-empty and the fallback strings
\* otherwise; name and description of a profile that is rendered are never
\* empty; with no flags at all the profile has both fallback strings, all
\* features false and score 0.
C6_CustomProfileDefaults ==
  /\ CustomPath =>
       /\ profile # <<>>
       /\ LET a == args[1]
              p == profile[1]
          IN /\ FlagsOf(p) = <<a.zk, a.fhe, a.open_source, a.audited, a.soundness>>
             /\ p.name = (IF a.name # None /\ a.name[1] # <<>>
                          THEN a.name[1] ELSE <<"Custom Web3 project">>)
             /\ p.description = (IF a.description # None /\ a.description[1] # <<>>
                                 THEN a.description[1]
                                 ELSE <<"User-defined Web3 project privacy profile.">>)
             /\ NoFlags(a) =>
                  /\ p = [name |-> <<"Custom Web3 project">>,
                          description |-> <<"User-defined Web3 project privacy profile.">>,
                          uses_zk |-> FALSE, uses_fhe |-> FALSE,
                          open_source |-> FALSE, audited |-> FALSE,
                          soundness_focus |-> FALSE]
                  /\ score_profile(p) = 0
                  /\ pc = "exit" => PrintedScore = <<"0">>
  /\ profile # <<>> => (profile[1].name # <<>> /\ profile[1].description # <<>>)

C6_Witness ==
  /\ CustomPath
  /\ pc = "exit"
  /\ args[1].name = Some(<<>>)
  /\ args[1].description = Some(<<>>)
  /\ args[1].custom
  /\ args[1].audited
  /\ stdout # <<>>

\* C7: --profile together with --custom ends the run with a non-zero status
\* before any listing, lookup, scoring or rendering; every run whose command
\* line parses ends with status 0.
C7_ExitStatus ==
  /\ (argv # <<>> /\ argv[1].profile # None /\ argv[1].custom) =>
       /\ pc = "exit"
       /\ exit_status \notin {-1, 0}
       /\ args = <<>>
       /\ profile = <<>>
       /\ stdout = <<>>
       /\ calls = <<>>
  /\ (pc = "exit" /\ args # <<>>) => exit_status = 0
  /\ pc # "exit" => exit_status = -1

C7_Witness ==
  /\ pc = "exit"
  /\ argv # <<>>
  /\ argv[1].profile = Some(KeyAztec)
  /\ argv[1].custom
  /\ exit_status = 2

\* C8: for every profile the score in the text report's line "Estimated
\* privacy-strength score: <score>/100" equals the score entry of the
\* structured output, and both are score_profile of the profile.
C8_RenderersAgreeOnScore ==
  Rendered =>
    LET p == profile[1]
        text == summarize_profile(p)
        json == export_json(p)
    IN /\ text[11][1] = "Estimated privacy-strength score: "
       /\ text[11][Len(text[11])] = "/100"
       /\ SubSeq(json[9], 1, 3) = <<"  \"", "score", "\": ">>
       /\ TextScore(text) = JsonScore(json)
       /\ TextScore(text) = IntToStr(score_profile(p))
       /\ stdout = (IF args[1].json THEN json ELSE text)

C8_Witness ==
  /\ Rendered
  /\ ~args[1].json
  /\ FlagsOf(profile[1]) = <<FALSE, TRUE, FALSE, FALSE, TRUE>>
  /\ TextScore(stdout) = <<"4", "0">>

JsonKeys ==
  <<"name", "description", "uses_zk", "uses_fhe", "open_source", "audited",
    "soundness_focus", "score">>

\* s without the backslash in front of each double quote.
RECURSIVE Unescape(_)
Unescape(s) ==
  IF s = <<>> THEN <<>>
  ELSE IF Len(s) >= 2 /\ s[1] = BACKSLASH /\ s[2] = QUOTE
       THEN <<QUOTE>> \o Unescape(SubSeq(s, 3, Len(s)))
       ELSE <<Head(s)>> \o Unescape(Tail(s))

\* The rendering of a string value: in double quotes, every double quote
\* inside preceded by a backslash, and the text otherwise unchanged.
QuotedAndEscaped(val, text) ==
  /\ Len(val) >= 2
  /\ val[1] = QUOTE
  /\ val[Len(val)] = QUOTE
  /\ LET inner == SubSeq(val, 2, Len(val) - 1)
     IN /\ \A j \in 1..Len(inner) :
             inner[j] = QUOTE => (j > 1 /\ inner[j - 1] = BACKSLASH)
        /\ Unescape(inner) = text

C10_BuiltinIgnoresCustomOptions ==
  BuiltinRun =>
    /\ profile # <<>>
    /\ \E i \in 1..3 :
         /\ <<KeyAztec, KeyZama, KeySoundness>>[i] = Lower(args[1].profile[1])
         /\ FlagsOf(profile[1])
              = << <<TRUE, FALSE, TRUE, TRUE, TRUE>>,
                   <<FALSE, TRUE, TRUE, FALSE, TRUE>>,
                   <<TRUE, FALSE, FALSE, TRUE, TRUE>> >>[i]
         /\ PrintedScore = << <<"7", "0">>, <<"5", "5">>, <<"5", "5">> >>[i]
    /\ MemoMatches => stdout = memo[1].out

C10_Witness ==
  /\ BuiltinRun
  /\ MemoMatches
  /\ memo[1].plain
  /\ args[1].profile = Some(KeyZama)
  /\ args[1].zk /\ args[1].audited /\ ~args[1].fhe
  /\ args[1].name = Some(<<"a", QUOTE, "b">>)
  /\ args[1].description = Some(<<"d", QUOTE>>)

====
